---- MODULE Spec2Model ----
(***************************************************************************)
(* Model of the test-case scanner (src/app): the row helpers and the       *)
(* validators of app/rules, core-steps enforcement and TestCaseScanner.scan *)
(* of app/scanner.py, and the severity policy and the run sequence of      *)
(* app/main.py.                                                            *)
(*                                                                         *)
(* Python str values are tuples of one-character strings, so that strip,   *)
(* lower, split, endswith and float are computed on the characters.  A     *)
(* pandas missing cell is NaN.  A table (DataFrame) is a record            *)
(* [columns, rows]: columns is the header in file order, rows[k] is the    *)
(* row with zero-based index k - 1, a function from column name to cell.   *)
(***************************************************************************)
EXTENDS Integers, Sequences, FiniteSets, TLC

VARIABLES
    file,           \* the CSV file at csv_path: [loadable, df]
    df,             \* TestCaseScanner.df once load_csv has run
    pc,             \* position of scan()
    ruleIdx,        \* index of the `for rule in RULES` loop
    errors,         \* scan()'s local list `errors`
    result,         \* the dict scan() returns
    applied,        \* name of the validator last called on its own
    out,            \* what that validator returned
    heap,           \* Python objects by identity: the issue records
    inList,         \* apply_strict_mode's argument `errors` (object ids)
    strict_errors,  \* apply_strict_mode's local list (object ids)
    input0,         \* the entries of that list as they were at the call
    si,             \* index of the `for e in errors` loop
    spc,            \* position of apply_strict_mode
    csv,            \* main: the file at csv_path as it is on disk now
    mpc,            \* position of main()
    main_errors,    \* main's `errors`: the issues of the normal scan
    strict_errors2, \* main's `strict_errors2`: the issues of the latest FINAL CHECK
    status,         \* the Status line of the latest report
    finalChecks,    \* how many FINAL CHECK passes have run
    cmd             \* what the user typed at the latest FINAL CHECK prompt

vars == <<file, df, pc, ruleIdx, errors, result, applied, out,
          heap, inList, input0, strict_errors, si, spc,
          csv, mpc, main_errors, strict_errors2, status, finalChecks, cmd>>

scanVars == <<file, df, pc, ruleIdx, errors, result>>
ruleVars == <<applied, out>>
strictVars == <<heap, inList, input0, strict_errors, si, spc>>
mainVars == <<csv, mpc, main_errors, strict_errors2, status, finalChecks, cmd>>

(***************************************************************************)
(* Bounds of the model                                                     *)
(***************************************************************************)
\* rows of a freely composed table
MaxFreeRows == 2
\* rows of a template-shaped table that are replaced by other rows
MaxEdits == 2
\* rows of a single-test-case table with numeric steps
MaxGroupRows == 4
\* issue objects on the heap handed to apply_strict_mode
MaxObjs == 2
\* length of the list handed to apply_strict_mode
MaxIssues == 2
\* FINAL CHECK passes of one run of main
MaxFinalChecks == 2

(***************************************************************************)
(* Python text                                                             *)
(***************************************************************************)
\* printable ASCII, code points 32..126 in order
\* (code point 96, the grave accent, cannot be written in a TLA+ string)
ASCII ==
    <<" ","!","\"","#","$","%","&","'","(",")","*","+",",","-",".","/","0","1","2","3","4","5","6","7","8","9",":",";","<","=",">","?","@","A","B","C","D","E","F","G","H","I","J","K","L","M","N","O","P","Q","R","S","T","U","V","W","X","Y","Z","[","\\","]","^","_">>
    \o <<"grave">>
    \o <<"a","b","c","d","e","f","g","h","i","j","k","l","m","n","o","p","q","r","s","t","u","v","w","x","y","z","{","|","}","~">>

\* ord() of the characters of the model: the tab and printable ASCII
OrdTable ==
    [c \in {"\t"} \cup {ASCII[i] : i \in 1..Len(ASCII)} |->
        IF c = "\t" THEN 9 ELSE 31 + (CHOOSE i \in 1..Len(ASCII) : ASCII[i] = c)]

Ord(c) == OrdTable[c]

Chr(n) == ASCII[n - 31]

IsSpace(c) == c \in {" ", "\t"}

LowerChar(c) == IF Ord(c) >= 65 /\ Ord(c) <= 90 THEN Chr(Ord(c) + 32) ELSE c

UpperChar(c) == IF Ord(c) >= 97 /\ Ord(c) <= 122 THEN Chr(Ord(c) - 32) ELSE c

\* str.lower()
lower(s) == IF s = <<>> THEN <<>> ELSE [i \in 1..Len(s) |-> LowerChar(s[i])]

\* str.upper()
upper(s) == IF s = <<>> THEN <<>> ELSE [i \in 1..Len(s) |-> UpperChar(s[i])]

Min(S) == CHOOSE x \in S : \A y \in S : x <= y

Max(S) == CHOOSE x \in S : \A y \in S : x >= y

Range(s) == {s[i] : i \in 1..Len(s)}

\* str.strip()
strip(s) ==
    LET keep == {i \in 1..Len(s) : ~IsSpace(s[i])}
    IN  IF keep = {} THEN <<>> ELSE SubSeq(s, Min(keep), Max(keep))

\* str.split() without arguments: the maximal runs of non-whitespace
RECURSIVE split(_)
split(s) ==
    LET starts == {i \in 1..Len(s) : ~IsSpace(s[i])}
    IN  IF starts = {} THEN <<>>
        ELSE LET a == Min(starts)
                 stops == {i \in a..Len(s) : IsSpace(s[i])}
                 b == IF stops = {} THEN Len(s) + 1 ELSE Min(stops)
             IN  <<SubSeq(s, a, b - 1)>> \o split(SubSeq(s, b, Len(s)))

\* sep.join(parts)
RECURSIVE join(_, _)
join(sep, parts) ==
    IF parts = <<>> THEN <<>>
    ELSE IF Len(parts) = 1 THEN parts[1]
    ELSE parts[1] \o sep \o join(sep, Tail(parts))

\* str.endswith(suffix)
endswith(s, suffix) ==
    /\ Len(suffix) <= Len(s)
    /\ SubSeq(s, Len(s) - Len(suffix) + 1, Len(s)) = suffix

\* s < t for Python str: lexicographic by code point
RECURSIVE StrLess(_, _)
StrLess(s, t) ==
    IF t = <<>> THEN FALSE
    ELSE IF s = <<>> THEN TRUE
    ELSE IF s[1] = t[1] THEN StrLess(Tail(s), Tail(t))
    ELSE Ord(s[1]) < Ord(t[1])

\* sorted() of a set of str
RECURSIVE sorted(_)
sorted(S) ==
    IF S = {} THEN <<>>
    ELSE LET m == CHOOSE x \in S : \A y \in S \ {x} : StrLess(x, y)
         IN  <<m>> \o sorted(S \ {m})

\* sorted() of a set of int
RECURSIVE sortedInts(_)
sortedInts(S) ==
    IF S = {} THEN <<>> ELSE <<Min(S)>> \o sortedInts(S \ {Min(S)})

\* the text as one TLA+ string (used inside messages)
RECURSIVE Text(_)
Text(s) == IF s = <<>> THEN "" ELSE s[1] \o Text(Tail(s))

\* ", ".join(map(str, ints))
RECURSIVE JoinInts(_)
JoinInts(ns) ==
    IF ns = <<>> THEN ""
    ELSE IF Len(ns) = 1 THEN ToString(ns[1])
    ELSE ToString(ns[1]) \o ", " \o JoinInts(Tail(ns))

RECURSIVE Flatten(_)
Flatten(ss) == IF Len(ss) = 0 THEN <<>> ELSE Head(ss) \o Flatten(Tail(ss))

Digits == {"0", "1", "2", "3", "4", "5", "6", "7", "8", "9"}

\* value of a run of decimal digits
RECURSIVE DigitsValue(_)
DigitsValue(ds) ==
    IF ds = <<>> THEN 0
    ELSE 10 * DigitsValue(SubSeq(ds, 1, Len(ds) - 1)) + (Ord(ds[Len(ds)]) - 48)

ValueError == [error |-> TRUE, int |-> 0, is_integer |-> FALSE]

\* float() of a numeral given as its sign and the digits before and after the dot
FloatOfParts(negative, intPart, fracPart) ==
    IF \/ \E i \in 1..Len(intPart) : intPart[i] \notin Digits
       \/ \E i \in 1..Len(fracPart) : fracPart[i] \notin Digits
       \/ Len(intPart) + Len(fracPart) = 0
    THEN ValueError
    ELSE [error |-> FALSE,
          int |-> (IF negative THEN 0 - 1 ELSE 1) * DigitsValue(intPart),
          is_integer |-> \A i \in 1..Len(fracPart) : fracPart[i] = "0"]

\* float() of a numeral given as its sign, its body and the places of its dots
FloatOfBody(negative, body, dots) ==
    IF Cardinality(dots) > 1 THEN ValueError
    ELSE FloatOfParts(negative,
                      IF dots = {} THEN body ELSE SubSeq(body, 1, Min(dots) - 1),
                      IF dots = {} THEN <<>> ELSE SubSeq(body, Min(dots) + 1, Len(body)))

FloatOfSigned(negative, body) ==
    FloatOfBody(negative, body, {i \in 1..Len(body) : body[i] = "."})

FloatOfStripped(t) ==
    FloatOfSigned(t # <<>> /\ t[1] = "-",
                  IF t # <<>> /\ t[1] \in {"+", "-"} THEN Tail(t) ELSE t)

\* float(text) for decimal numerals without exponent: ValueError when Python
\* raises it, else the integer part and whether the value is whole
float(text) == FloatOfStripped(strip(text))

(***************************************************************************)
(* app/rules/common.py                                                     *)
(***************************************************************************)
\* a missing cell (pandas NaN); pd.isna(value) is value = NaN
NaN == <<"NaN">>

\* str(value) of a cell
str(value) == IF value = NaN THEN <<"n","a","n">> ELSE value

\* Optional[int] row of an issue: None, for a file-level issue
None == 0

COL_TEST_CASE_ID == <<"T","e","s","t"," ","C","a","s","e"," ","I","D">>
COL_STEP == <<"S","t","e","p"," ","#">>
COL_ACTION == <<"A","c","t","i","o","n">>
COL_INPUT_DATA == <<"I","n","p","u","t"," ","D","a","t","a">>
COL_DATA == <<"D","a","t","a">>
COL_EXPECTED_RESULTS == <<"E","x","p","e","c","t","e","d"," ","R","e","s","u","l","t","s">>

FAIL == <<"F","A","I","L">>
WARNING == <<"W","A","R","N","I","N","G">>
INFO == <<"I","N","F","O">>

EMPTY_LIKE_VALUES ==
    {<<>>, <<"-">>, <<"-","-">>, <<"n","/","a">>, <<"n","a">>, <<"n","o","n","e">>, <<"n","u","l","l">>, <<"n","i","l">>, <<"e","m","p","t","y">>}

\* the last two tests of is_empty_like, on text = str(value).strip()
EmptyLikeText(text) == IF text = <<>> THEN TRUE ELSE lower(text) \in EMPTY_LIKE_VALUES

is_empty_like(value) == IF value = NaN THEN TRUE ELSE EmptyLikeText(strip(str(value)))

\* excel_row_number without the header row: the first row numbered 1
excel_row_number_NoHeaderRow(df_index) == df_index + 1

excel_row_number(df_index) == df_index + 2

\* row.get(col, "")
Get(row, col) == IF col \in DOMAIN row THEN row[col] ELSE <<>>

is_blank_row(row) ==
    \A col \in {COL_TEST_CASE_ID, COL_STEP, COL_ACTION, COL_INPUT_DATA, COL_DATA, COL_EXPECTED_RESULTS} :
        is_empty_like(Get(row, col))

\* Optional[int]: <<>> is None, <<n>> is the integer n
IntOfWhole(f) == IF f.error THEN <<>> ELSE IF f.is_integer THEN <<f.int>> ELSE <<>>

to_int_step(value) ==
    IF is_empty_like(value) THEN <<>> ELSE IntOfWhole(float(strip(str(value))))

\* field = "" stands for field=None: the key is left out
make_issue(row, message, rule, severity, field) ==
    IF field # ""
    THEN [row |-> row, message |-> message, rule |-> rule,
          severity |-> severity, field |-> field]
    ELSE [row |-> row, message |-> message, rule |-> rule, severity |-> severity]

Columns(table) == Range(table.columns)

(***************************************************************************)
(* app/rules: the validators, each from a table to a list of issues        *)
(***************************************************************************)
check_missing_columns(table) ==
    LET required == {COL_ACTION, COL_EXPECTED_RESULTS}
        missing == sorted(required \ Columns(table))
    IN  IF missing # <<>>
        THEN <<make_issue(None,
                          "Missing required columns: " \o Text(join(<<","," ">>, missing)),
                          "MISSING_COLUMNS", FAIL, "")>>
        ELSE <<>>

\* the loop body without its `if is_blank_row(row): continue`
RequiredFieldsRow_NoBlankSkip(row, idx) ==
    LET row_num == excel_row_number(idx)
    IN  (IF is_empty_like(Get(row, COL_ACTION))
         THEN <<make_issue(row_num, "Action is empty",
                           "REQUIRED_FIELDS", FAIL, "Action")>>
         ELSE <<>>)
        \o
        (IF is_empty_like(Get(row, COL_EXPECTED_RESULTS))
         THEN <<make_issue(row_num, "Expected Results is empty",
                           "REQUIRED_FIELDS", FAIL, "Expected Results")>>
         ELSE <<>>)

\* body of check_required_fields' loop for one row
RequiredFieldsRow(row, idx) ==
    IF is_blank_row(row) THEN <<>>
    ELSE LET row_num == excel_row_number(idx)
         IN  (IF is_empty_like(Get(row, COL_ACTION))
              THEN <<make_issue(row_num, "Action is empty",
                                "REQUIRED_FIELDS", FAIL, "Action")>>
              ELSE <<>>)
             \o
             (IF is_empty_like(Get(row, COL_EXPECTED_RESULTS))
              THEN <<make_issue(row_num, "Expected Results is empty",
                                "REQUIRED_FIELDS", FAIL, "Expected Results")>>
              ELSE <<>>)

check_required_fields(table) ==
    IF ~({COL_ACTION, COL_EXPECTED_RESULTS} \subseteq Columns(table)) THEN <<>>
    ELSE Flatten([k \in 1..Len(table.rows) |-> RequiredFieldsRow(table.rows[k], k - 1)])

\* body of check_blank_rows' loop for one row
BlankRowsRow(row, idx) ==
    IF is_blank_row(row)
    THEN <<make_issue(excel_row_number(idx), "Blank row", "BLANK_ROW", WARNING, "")>>
    ELSE <<>>

check_blank_rows(table) ==
    Flatten([k \in 1..Len(table.rows) |-> BlankRowsRow(table.rows[k], k - 1)])

target_action == <<"s","e","a","r","c","h"," ","f","o","r"," ","p","a","t","i","e","n","t"," ","u","s","i","n","g"," ","n","a","m","e"," ","o","r"," ","s","s","n">>

\* body of check_data_required_for_actions' loop for one row
DataRequiredRow(row, idx) ==
    IF is_blank_row(row) THEN <<>>
    ELSE LET action == lower(strip(str(Get(row, COL_ACTION))))
             data == Get(row, COL_DATA)
         IN  IF action = target_action /\ is_empty_like(data)
             THEN <<make_issue(excel_row_number(idx),
                       "Data is required for this Action (provide patient name or SSN)",
                       "DATA_REQUIRED", FAIL, "Data")>>
             ELSE <<>>

check_data_required_for_actions(table) ==
    IF ~({COL_ACTION, COL_DATA} \subseteq Columns(table)) THEN <<>>
    ELSE Flatten([k \in 1..Len(table.rows) |-> DataRequiredRow(table.rows[k], k - 1)])

\* body of check_expected_results_punctuation's loop for one row
PunctuationRow(row, idx) ==
    IF is_blank_row(row) THEN <<>>
    ELSE LET value == Get(row, COL_EXPECTED_RESULTS)
         IN  IF is_empty_like(value) THEN <<>>
             ELSE IF ~endswith(strip(str(value)), <<".">>)
             THEN <<make_issue(excel_row_number(idx),
                       "Expected Results should end with a period (.)",
                       "EXPECTED_RESULTS_PUNCTUATION", WARNING, "Expected Results")>>
             ELSE <<>>

check_expected_results_punctuation(table) ==
    IF COL_EXPECTED_RESULTS \notin Columns(table) THEN <<>>
    ELSE Flatten([k \in 1..Len(table.rows) |-> PunctuationRow(table.rows[k], k - 1)])

GENERIC_PHRASES ==
    {<<"o","k">>, <<"o","k","a","y">>, <<"w","o","r","k","s">>, <<"w","o","r","k">>, <<"d","o","n","e">>, <<"c","o","m","p","l","e","t","e","d">>, <<"c","o","m","p","l","e","t","e">>,
     <<"s","u","c","c","e","s","s">>, <<"s","u","c","c","e","s","s","f","u","l">>, <<"p","a","s","s">>, <<"p","a","s","s","e","d">>, <<"c","o","r","r","e","c","t">>, <<"c","o","r","r","e","c","t","l","y">>,
     <<"a","s"," ","e","x","p","e","c","t","e","d">>}

\* generic_expected_results._normalize
normalize(text) == lower(strip(str(text)))

\* the loop body without the `continue` that ends Case 1
GenericRow_NoContinue(row, idx) ==
    IF is_blank_row(row) THEN <<>>
    ELSE LET expected == Get(row, COL_EXPECTED_RESULTS)
             expected_norm == normalize(expected)
         IN  IF is_empty_like(expected) THEN <<>>
             ELSE (IF expected_norm \in GENERIC_PHRASES
                   THEN <<make_issue(excel_row_number(idx),
                             "Expected Results is too generic (\""
                                 \o Text(strip(str(expected))) \o "\")",
                             "GENERIC_EXPECTED_RESULTS", WARNING, "Expected Results")>>
                   ELSE <<>>)
                  \o
                  (IF Len(expected_norm) <= 3
                   THEN <<make_issue(excel_row_number(idx),
                             "Expected Results is too short (\""
                                 \o Text(strip(str(expected))) \o "\")",
                             "GENERIC_EXPECTED_RESULTS", WARNING, "Expected Results")>>
                   ELSE <<>>)

\* body of check_generic_expected_results' loop for one row
GenericRow(row, idx) ==
    IF is_blank_row(row) THEN <<>>
    ELSE LET expected == Get(row, COL_EXPECTED_RESULTS)
             expected_norm == normalize(expected)
         IN  IF is_empty_like(expected) THEN <<>>
             ELSE IF expected_norm \in GENERIC_PHRASES
             THEN <<make_issue(excel_row_number(idx),
                       "Expected Results is too generic (\""
                           \o Text(strip(str(expected))) \o "\")",
                       "GENERIC_EXPECTED_RESULTS", WARNING, "Expected Results")>>
             ELSE IF Len(expected_norm) <= 3
             THEN <<make_issue(excel_row_number(idx),
                       "Expected Results is too short (\""
                           \o Text(strip(str(expected))) \o "\")",
                       "GENERIC_EXPECTED_RESULTS", WARNING, "Expected Results")>>
             ELSE <<>>

check_generic_expected_results(table) ==
    IF COL_EXPECTED_RESULTS \notin Columns(table) THEN <<>>
    ELSE Flatten([k \in 1..Len(table.rows) |-> GenericRow(table.rows[k], k - 1)])

(***************************************************************************)
(* app/rules/step_numbering.py                                             *)
(***************************************************************************)
\* working_df without the blank-row filter, and with dropna on Test Case ID
\* in place of the is_empty_like filter
WorkingIndex_DropNaOnly(table) ==
    {k - 1 : k \in {j \in 1..Len(table.rows) : table.rows[j][COL_TEST_CASE_ID] # NaN}}

\* zero-based indices of working_df: neither blank nor without Test Case ID
WorkingIndex(table) ==
    {k - 1 : k \in {j \in 1..Len(table.rows) :
                      /\ ~is_blank_row(table.rows[j])
                      /\ ~is_empty_like(table.rows[j][COL_TEST_CASE_ID])}}

\* the group keys in the order groupby("Test Case ID") iterates them:
\* pandas sorts the keys (sort=True is the default)
GroupKeys(table) ==
    sorted({table.rows[i + 1][COL_TEST_CASE_ID] : i \in WorkingIndex(table)})

\* index labels of one group, in row order
GroupIndex(table, tc_id) ==
    sortedInts({i \in WorkingIndex(table) : table.rows[i + 1][COL_TEST_CASE_ID] = tc_id})

\* the first loop over a group's rows: the error of a row without a usable Step #
StepRowError(tc_text, row_num, raw) ==
    IF to_int_step(raw) # <<>> THEN <<>>
    ELSE IF is_empty_like(raw)
    THEN <<[row |-> row_num,
            error |-> "Step # is empty (Test Case ID: " \o tc_text \o ")"]>>
    ELSE <<[row |-> row_num,
            error |-> "Step # is not a number: \"" \o Text(strip(str(raw)))
                      \o "\" (Test Case ID: " \o tc_text \o ")"]>>

\* steps_in_order: <<row_num, step_int>> of the rows with an integer Step #,
\* from the <<row_num, to_int_step(raw)>> of every row of the group
StepsInOrder(row_steps) ==
    LET valid == SelectSeq(row_steps, LAMBDA p : p[2] # <<>>)
    IN  [k \in 1..Len(valid) |-> <<valid[k][1], valid[k][2][1]>>]

\* the keys of step_to_rows in insertion order: each step at its first row
RECURSIVE StepKeys(_)
StepKeys(steps_in_order) ==
    IF Len(steps_in_order) = 0 THEN <<>>
    ELSE LET init == SubSeq(steps_in_order, 1, Len(steps_in_order) - 1)
             last == steps_in_order[Len(steps_in_order)][2]
         IN  IF \E k \in 1..Len(init) : init[k][2] = last
             THEN StepKeys(init)
             ELSE StepKeys(init) \o <<last>>

\* step_to_rows[step]
StepRows(steps_in_order, step) ==
    LET hits == SelectSeq(steps_in_order, LAMBDA p : p[2] = step)
    IN  [k \in 1..Len(hits) |-> hits[k][1]]

\* the errors of one key of step_to_rows
DuplicatesOf(step, rows, tc_text) ==
    IF Len(rows) > 1
    THEN [r \in 1..Len(rows) |->
            [row |-> rows[r],
             error |-> "Duplicate Step # " \o ToString(step)
                       \o " in Test Case ID " \o tc_text]]
    ELSE <<>>

\* the loop over step_to_rows.items(), keys being its keys in order
DuplicateErrors(steps_in_order, keys, tc_text) ==
    Flatten([k \in 1..Len(keys) |->
                DuplicatesOf(keys[k], StepRows(steps_in_order, keys[k]), tc_text)])

\* the gaps looked for from the smallest step on, not from 1
MissingErrors_FromMinStep(valid_steps, first_row, tc_text) ==
    LET missing == sortedInts((Min(valid_steps)..Max(valid_steps)) \ valid_steps)
    IN  IF missing # <<>>
        THEN <<[row |-> first_row,
                error |-> "Missing Step # in Test Case ID " \o tc_text
                          \o ": " \o JoinInts(missing)]>>
        ELSE <<>>

MissingErrors(valid_steps, first_row, tc_text) ==
    LET missing == sortedInts((1..Max(valid_steps)) \ valid_steps)
    IN  IF missing # <<>>
        THEN <<[row |-> first_row,
                error |-> "Missing Step # in Test Case ID " \o tc_text
                          \o ": " \o JoinInts(missing)]>>
        ELSE <<>>

\* the message is no f-string in the source: {tc_id} stays as written
OrderErrors(steps_in_order) ==
    LET bad == {i \in 2..Len(steps_in_order) :
                    steps_in_order[i][2] < steps_in_order[i - 1][2]}
    IN  IF bad # {}
        THEN <<[row |-> steps_in_order[Min(bad)][1],
                error |-> "Step # is out of order in Test Case ID {tc_id} (expected ascending order)"]>>
        ELSE <<>>

\* what follows the first loop, for a group with steps_in_order
GroupChecks(steps_in_order, group_rows, tc_text) ==
    IF Len(steps_in_order) = 0 THEN <<>>
    ELSE DuplicateErrors(steps_in_order, StepKeys(steps_in_order), tc_text)
         \o MissingErrors({steps_in_order[k][2] : k \in 1..Len(steps_in_order)},
                          Min(Range(group_rows)), tc_text)
         \o OrderErrors(steps_in_order)

\* body of the loop over the groups, from each row's row_num and raw Step #
GroupReport(group_rows, raws, tc_text) ==
    Flatten([k \in 1..Len(raws) |-> StepRowError(tc_text, group_rows[k], raws[k])])
    \o GroupChecks(StepsInOrder([k \in 1..Len(raws) |-> <<group_rows[k], to_int_step(raws[k])>>]),
                   group_rows, tc_text)

GroupErrorsOf(table, group, tc_text) ==
    GroupReport([k \in 1..Len(group) |-> excel_row_number(group[k])],
                [k \in 1..Len(group) |-> Get(table.rows[group[k] + 1], COL_STEP)],
                tc_text)

GroupErrors(table, tc_id) ==
    GroupErrorsOf(table, GroupIndex(table, tc_id), Text(str(tc_id)))

check_step_numbering(table) ==
    IF ~({COL_TEST_CASE_ID, COL_STEP} \subseteq Columns(table)) THEN <<>>
    ELSE LET keys == GroupKeys(table)
         IN  Flatten([g \in 1..Len(keys) |-> GroupErrors(table, keys[g])])

(***************************************************************************)
(* app/config.py and app/core_steps.py                                     *)
(***************************************************************************)
ENABLE_CORE_STEPS == TRUE
CORE_ANCHOR_STEP_3_ACTION == <<"E","n","t","e","r"," ","P","I","N"," ","a","n","d"," ","h","i","t"," ","E","n","t","e","r">>
CORE_ANCHOR_STEP_4_ACTION == <<"C","l","i","c","k"," ","O","K"," ","b","u","t","t","o","n">>
CORE_ANCHOR_STEP_5_ACTION == <<"C","l","i","c","k"," ","O","K"," ","b","u","t","t","o","n">>
CORE_ANCHOR_STEP_8_ACTION == <<"C","l","i","c","k"," ","C","o","n","t","i","n","u","e"," ","b","u","t","t","o","n">>
CORE_ANCHOR_MIN_MATCHES == 2
CORE_STEPS_COUNT == 8

CORE_STEPS ==
    <<[action |-> <<"L","a","u","n","c","h"," ","C","A","P","R","I"," ","a","p","p","l","i","c","a","t","i","o","n"," ","f","r","o","m"," ","d","e","s","k","t","o","p">>,
       expected |-> <<"W","i","n","d","o","w","s"," ","S","e","c","u","r","i","t","y"," ","C","e","r","t","i","f","i","c","a","t","e"," ","S","e","l","e","c","t","i","o","n"," ","w","i","n","d","o","w"," ","p","o","p","-","u","p"," ","d","i","s","p","l","a","y","s",".">>],
      [action |-> <<"S","e","l","e","c","t"," ","a","p","p","r","o","p","r","i","a","t","e"," ","P","I","V"," ","C","a","r","d"," ","C","e","r","t","i","f","i","c","a","t","e"," ","a","n","d"," ","s","e","l","e","c","t"," ","O","K"," ","b","u","t","t","o","n">>,
       expected |-> <<"A","c","t","i","v","C","l","i","e","n","t"," ","L","o","g","i","n"," ","p","i","n"," ","s","c","r","e","e","n"," ","d","i","s","p","l","a","y","s",".">>],
      [action |-> <<"E","n","t","e","r"," ","P","I","N"," ","a","n","d"," ","h","i","t"," ","E","n","t","e","r">>,
       expected |-> <<"S","y","s","t","e","m"," ","U","s","e"," ","N","o","t","i","f","i","c","a","t","i","o","n"," ","w","i","n","d","o","w"," ","d","i","s","p","l","a","y","s",".">>],
      [action |-> <<"C","l","i","c","k"," ","O","K"," ","b","u","t","t","o","n">>,
       expected |-> <<"C","A","P","R","I"," ","N","e","w","s"," ","f","e","e","d"," ","d","i","s","p","l","a","y","s",".">>],
      [action |-> <<"C","l","i","c","k"," ","C","l","o","s","e"," ","b","u","t","t","o","n">>,
       expected |-> <<"C","A","P","R","I"," ","G","U","I"," ","v","e","r","s","i","o","n"," ","p","o","p","-","u","p"," ","d","i","s","p","l","a","y","s",".">>],
      [action |-> <<"C","l","i","c","k"," ","O","K"," ","b","u","t","t","o","n">>,
       expected |-> <<"C","A","P","R","I"," ","a","l","e","r","t","s"," ","s","c","r","e","e","n"," ","d","i","s","p","l","a","y","s",".">>],
      [action |-> <<"C","l","i","c","k"," ","C","o","n","t","i","n","u","e"," ","b","u","t","t","o","n">>,
       expected |-> <<"C","A","P","R","I"," ","a","p","p","l","i","c","a","t","i","o","n"," ","l","o","a","d","s","."," ","P","a","t","i","e","n","t"," ","S","e","l","e","c","t","o","r"," ","s","c","r","e","e","n"," ","d","i","s","p","l","a","y","s",".">>],
      [action |-> <<"S","e","a","r","c","h"," ","f","o","r"," ","P","a","t","i","e","n","t"," ","u","s","i","n","g"," ","N","a","m","e"," ","o","r"," ","S","S","N">>,
       expected |-> <<"P","a","t","i","e","n","t"," ","r","e","c","o","r","d"," ","i","s"," ","d","i","s","p","l","a","y","e","d",".">>]>>

normalize_spaces(text) == join(<<" ">>, split(strip(str(text))))

steps_match(a, b) == normalize_spaces(a) = normalize_spaces(b)

(***************************************************************************)
(* app/scanner.py                                                          *)
(***************************************************************************)
anchor_step_map ==
    [p \in {3, 4, 5, 8} |->
        CASE p = 3 -> CORE_ANCHOR_STEP_3_ACTION
          [] p = 4 -> CORE_ANCHOR_STEP_4_ACTION
          [] p = 5 -> CORE_ANCHOR_STEP_5_ACTION
          [] p = 8 -> CORE_ANCHOR_STEP_8_ACTION]

\* the list `steps`: the two texts of every row, missing cells as ""
BuildSteps(table) ==
    [k \in 1..Len(table.rows) |->
        [action |-> IF table.rows[k][COL_ACTION] = NaN THEN <<>>
                    ELSE str(table.rows[k][COL_ACTION]),
         expected |-> IF table.rows[k][COL_EXPECTED_RESULTS] = NaN THEN <<>>
                      ELSE str(table.rows[k][COL_EXPECTED_RESULTS])]]

\* match_count with only the anchors of steps 3 and 4 looked at
MatchCount_AnchorsThreeAndFour(steps) ==
    Cardinality({p \in {3, 4} :
                    /\ anchor_step_map[p] # <<>>
                    /\ steps_match(steps[p].action, anchor_step_map[p])})

\* match_count after the loop over the anchors
MatchCount(steps) ==
    Cardinality({p \in DOMAIN anchor_step_map :
                    /\ anchor_step_map[p] # <<>>
                    /\ steps_match(steps[p].action, anchor_step_map[p])})

\* body of the enforcement loop for i (zero-based)
EnforceStep(steps, i) ==
    LET expected_action == CORE_STEPS[i + 1].action
        expected_expected == CORE_STEPS[i + 1].expected
        found_action == steps[i + 1].action
        found_expected == steps[i + 1].expected
        excel_row == i + 2
    IN  (IF ~steps_match(found_action, expected_action)
         THEN <<[severity |-> WARNING, excel_row |-> excel_row,
                 message |-> "Core Step " \o ToString(i + 1)
                     \o " Action mismatch. Expected: \"" \o Text(expected_action)
                     \o "\" | Found: \"" \o Text(found_action) \o "\"."]>>
         ELSE <<>>)
        \o
        (IF ~steps_match(found_expected, expected_expected)
         THEN <<[severity |-> WARNING, excel_row |-> excel_row,
                 message |-> "Core Step " \o ToString(i + 1)
                     \o " Expected Results mismatch. Expected: \"" \o Text(expected_expected)
                     \o "\" | Found: \"" \o Text(found_expected) \o "\"."]>>
         ELSE <<>>)

check_core_steps_enforcement(table) ==
    IF ~ENABLE_CORE_STEPS THEN <<>>
    ELSE IF COL_ACTION \notin Columns(table) \/ COL_EXPECTED_RESULTS \notin Columns(table) THEN <<>>
    ELSE LET steps == BuildSteps(table)
             enforce_n == Min({CORE_STEPS_COUNT, Len(CORE_STEPS), Len(steps)})
         IN  IF Len(steps) < Max(DOMAIN anchor_step_map) THEN <<>>
             ELSE IF MatchCount(steps) < CORE_ANCHOR_MIN_MATCHES THEN <<>>
             ELSE Flatten([k \in 1..enforce_n |-> EnforceStep(steps, k - 1)])

(***************************************************************************)
(* app/main.py: the severity policy                                        *)
(***************************************************************************)
\* A list entry is a Python str, modelled as [str |-> text], or a dict,
\* modelled as the record of its items.
IsStr(e) == "str" \in DOMAIN e

\* dict.get(key): a missing key gives None, which like "" is falsy and no
\* non-empty str, so both are modelled as the empty text
DictGet(d, key) == IF key \in DOMAIN d THEN d[key] ELSE <<>>

extract_severity(err) ==
    IF IsStr(err) THEN FAIL
    ELSE LET sev == IF DictGet(err, "severity") # <<>> THEN DictGet(err, "severity")
                    ELSE IF DictGet(err, "level") # <<>> THEN DictGet(err, "level")
                    ELSE DictGet(err, "type")
             sev_norm == upper(strip(sev))
         IN  IF strip(sev) # <<>>
             THEN IF sev_norm \in {<<"F","A","I","L">>, <<"E","R","R","O","R">>} THEN FAIL
                  ELSE IF sev_norm \in {<<"W","A","R","N","I","N","G">>, <<"W","A","R","N">>} THEN WARNING
                  ELSE IF sev_norm \in {<<"I","N","F","O">>} THEN INFO
                  ELSE FAIL
             ELSE FAIL

\* summarize_issues with the WARNING branch lost: a WARNING counts as INFO
summarize_issues_NoWarningBranch(es) ==
    <<Cardinality({k \in 1..Len(es) : extract_severity(es[k]) = FAIL}),
      0,
      Cardinality({k \in 1..Len(es) : extract_severity(es[k]) # FAIL})>>

\* (fail_count, warning_count, info_count) of a list of entries
summarize_issues(es) ==
    <<Cardinality({k \in 1..Len(es) : extract_severity(es[k]) = FAIL}),
      Cardinality({k \in 1..Len(es) : extract_severity(es[k]) = WARNING}),
      Cardinality({k \in 1..Len(es) : ~(extract_severity(es[k]) \in {FAIL, WARNING})})>>

\* the copy with "severity" overwritten only where the key is there already
Promoted_ExistingKeyOnly(e) ==
    [key \in DOMAIN e |-> IF key = "severity" THEN FAIL ELSE e[key]]

\* new_e = dict(e); new_e["severity"] = "FAIL"
Promoted(e) ==
    [key \in DOMAIN e \cup {"severity"} |-> IF key = "severity" THEN FAIL ELSE e[key]]

\* the entries a list of object ids refers to
Deref(ids) == [k \in 1..Len(ids) |-> heap[ids[k]]]

(***************************************************************************)
(* Tables the scanner is run on                                            *)
(***************************************************************************)
AllColumns == {COL_TEST_CASE_ID, COL_STEP, COL_ACTION, COL_DATA, COL_EXPECTED_RESULTS}

FullRow(tc, step, action, data, expected) ==
    [col \in AllColumns |->
        CASE col = COL_TEST_CASE_ID -> tc
          [] col = COL_STEP -> step
          [] col = COL_ACTION -> action
          [] col = COL_DATA -> data
          [] col = COL_EXPECTED_RESULTS -> expected]

\* the table with this header and these rows cut to the header's columns
Table(header, fullRows) ==
    [columns |-> header,
     rows |-> [k \in 1..Len(fullRows) |-> [col \in Range(header) |-> fullRows[k][col]]]]

EmptyTable == [columns |-> <<>>, rows |-> <<>>]

Headers ==
    {<<COL_TEST_CASE_ID, COL_STEP, COL_ACTION, COL_DATA, COL_EXPECTED_RESULTS>>,
     <<COL_ACTION, COL_EXPECTED_RESULTS>>,
     <<COL_TEST_CASE_ID, COL_ACTION, COL_DATA, COL_EXPECTED_RESULTS>>,
     <<COL_TEST_CASE_ID, COL_STEP, COL_ACTION, COL_DATA>>,
     <<COL_EXPECTED_RESULTS, COL_DATA>>,
     <<COL_TEST_CASE_ID, COL_STEP>>}

BlankRowNaN == FullRow(NaN, NaN, NaN, NaN, NaN)

RowPool ==
    {BlankRowNaN,
     FullRow(<<"-">>, <<"-","-">>, <<" ","n","i","l"," ">>, <<"E","m","p","t","y">>, <<"N","O","N","E">>),
     FullRow(<<"T","C","1">>, <<"1">>, <<"O","p","e","n"," ","t","h","e"," ","p","a","g","e">>, NaN, <<"P","a","g","e"," ","o","p","e","n","s",".">>),
     FullRow(<<"T","C","2">>, <<"2",".","0">>, <<"S","e","a","r","c","h"," ","f","o","r"," ","P","a","t","i","e","n","t"," ","u","s","i","n","g"," ","N","a","m","e"," ","o","r"," ","S","S","N"," ">>, NaN, <<"O","K"," ">>),
     FullRow(<<"T","C","1">>, <<"x">>, NaN, <<"J","o","h","n">>, <<"n","o",".">>),
     FullRow(NaN, <<"1">>, <<"C","l","i","c","k"," ","O","K"," ","b","u","t","t","o","n">>, NaN, <<"-">>),
     FullRow(<<"T","C","1">>, NaN, <<"O","p","e","n">>, <<"d">>, <<"S","h","o","w","n">>)}

\* all sequences over S of length at most n
SeqsUpTo(S, n) == UNION {[1..m -> S] : m \in 0..n}

FreeTables == {Table(h, rs) : h \in Headers, rs \in SeqsUpTo(RowPool, MaxFreeRows)}

\* a table that follows the core-steps template: row p is template step p
CoreRow(p) ==
    FullRow(<<"T","C","1">>, <<Chr(48 + p)>>, CORE_STEPS[p].action, NaN, CORE_STEPS[p].expected)

EditPool ==
    {BlankRowNaN,
     FullRow(<<"T","C","1">>, <<"4">>, <<"C","l","i","c","k"," "," ","O","K"," ","b","u","t","t","o","n"," ">>, NaN, <<"C","A","P","R","I"," ","N","e","w","s"," ","f","e","e","d"," ","d","i","s","p","l","a","y","s",".">>),
     FullRow(<<"T","C","1">>, <<"8">>, <<"C","l","i","c","k"," ","C","o","n","t","i","n","u","e"," ","b","u","t","t","o","n">>, <<"S","m","i","t","h">>, <<"P","a","t","i","e","n","t"," ","r","e","c","o","r","d"," ","i","s"," ","d","i","s","p","l","a","y","e","d",".">>),
     FullRow(<<"T","C","1">>, NaN, NaN, NaN, <<"D","o","n","e">>)}

\* the template rows that may be replaced: the four anchors and a row that is none
EditPositions == {1, 3, 4, 5, 8}

\* the ways to replace at most MaxEdits template rows by rows of EditPool
Edits ==
    UNION {[E -> EditPool] : E \in {S \in SUBSET EditPositions : Cardinality(S) <= MaxEdits}}

EditedRows(edit) ==
    [p \in 1..Len(CORE_STEPS) |-> IF p \in DOMAIN edit THEN edit[p] ELSE CoreRow(p)]

CoreHeader == <<COL_TEST_CASE_ID, COL_STEP, COL_ACTION, COL_DATA, COL_EXPECTED_RESULTS>>

\* the edited templates, the template cut to 7 rows, and the template with
\* another first row and a 9th row
CoreTables ==
    {Table(CoreHeader, EditedRows(edit)) : edit \in Edits}
    \cup {Table(CoreHeader, [p \in 1..7 |-> CoreRow(p)]),
          Table(CoreHeader, <<FullRow(<<"T","C","1">>, <<"1">>, <<"O","p","e","n"," ","t","h","e"," ","p","a","g","e">>, NaN, <<"P","a","g","e"," ","o","p","e","n","s",".">>)>>
                            \o [p \in 1..7 |-> CoreRow(p + 1)]
                            \o <<FullRow(<<"T","C","1">>, <<"9">>, <<"O","p","e","n"," ","t","h","e"," ","p","a","g","e">>, NaN, <<"P","a","g","e"," ","o","p","e","n","s",".">>)>>)}

StepValues == {1, 2, 3, 4}

\* one test case whose Step # cells are all integers
StepTables ==
    {Table(<<COL_TEST_CASE_ID, COL_STEP>>,
           [k \in 1..Len(steps) |-> FullRow(<<"T","C","1">>, <<Chr(48 + steps[k])>>, NaN, NaN, NaN)]) :
        steps \in SeqsUpTo(StepValues, MaxGroupRows)}

(***************************************************************************)
(* Issue lists apply_strict_mode is run on                                 *)
(***************************************************************************)
IssuePool ==
    {[str |-> "legacy error text"],
     make_issue(3, "Expected Results should end with a period (.)",
                "EXPECTED_RESULTS_PUNCTUATION", WARNING, "Expected Results"),
     make_issue(2, "Action is empty", "REQUIRED_FIELDS", FAIL, "Action"),
     [row |-> 2, error |-> "Step # is empty (Test Case ID: TC1)"],
     [severity |-> WARNING, excel_row |-> 2, message |-> "Core Step 1 Action mismatch."],
     [message |-> "note", rule |-> "NOTE", severity |-> <<"i","n","f","o">>],
     [message |-> "old style", level |-> <<" ","w","a","r","n"," ">>],
     [message |-> "mixed", severity |-> <<"I","n","f","o">>, level |-> <<"W","A","R","N","I","N","G">>]}

(***************************************************************************)
(* TestCaseScanner.scan                                                    *)
(***************************************************************************)
\* RULES with the blank-row check moved before the required-fields check
RULES_BlankRowsFirst ==
    <<"check_missing_columns", "check_blank_rows", "check_required_fields",
      "check_data_required_for_actions", "check_expected_results_punctuation",
      "check_generic_expected_results">>

RULES ==
    <<"check_missing_columns", "check_required_fields", "check_blank_rows",
      "check_data_required_for_actions", "check_expected_results_punctuation",
      "check_generic_expected_results">>

CONDITIONAL_RULES == <<[required_columns |-> {COL_TEST_CASE_ID, COL_STEP}, rule |-> "check_step_numbering"]>>

\* rule(df) for a rule named in RULES or CONDITIONAL_RULES
CallRule(rule, table) ==
    CASE rule = "check_missing_columns" -> check_missing_columns(table)
      [] rule = "check_required_fields" -> check_required_fields(table)
      [] rule = "check_blank_rows" -> check_blank_rows(table)
      [] rule = "check_data_required_for_actions" -> check_data_required_for_actions(table)
      [] rule = "check_expected_results_punctuation" -> check_expected_results_punctuation(table)
      [] rule = "check_generic_expected_results" -> check_generic_expected_results(table)
      [] rule = "check_step_numbering" -> check_step_numbering(table)

ScanResult(table, errs) ==
    [rows |-> Len(table.rows), columns |-> table.columns, errors |-> errs]

NoResult == [rows |-> 0 - 1, columns |-> <<>>, errors |-> <<>>]

Files ==
    {[loadable |-> TRUE, df |-> t] : t \in FreeTables \cup CoreTables}
    \cup {[loadable |-> FALSE, df |-> EmptyTable]}

ScanIdle ==
    /\ file = [loadable |-> FALSE, df |-> EmptyTable]
    /\ df = EmptyTable
    /\ pc = "idle"
    /\ ruleIdx = 0
    /\ errors = <<>>
    /\ result = NoResult

RulesIdle == applied = "" /\ out = <<>>

StrictIdle ==
    /\ heap = <<>>
    /\ inList = <<>>
    /\ input0 = <<>>
    /\ strict_errors = <<>>
    /\ si = 0
    /\ spc = "idle"

MainIdle ==
    /\ csv = [exists |-> FALSE, loadable |-> FALSE, df |-> EmptyTable]
    /\ mpc = "idle"
    /\ main_errors = <<>>
    /\ strict_errors2 = <<>>
    /\ status = ""
    /\ finalChecks = 0
    /\ cmd = <<>>

\* scan() is entered: self.df is None, nothing has run
Init ==
    /\ file \in Files
    /\ df = EmptyTable
    /\ pc = "load_csv"
    /\ ruleIdx = 0
    /\ errors = <<>>
    /\ result = NoResult
    /\ RulesIdle
    /\ StrictIdle
    /\ MainIdle

\* load_csv with the exception swallowed: scan goes on with an empty table
LoadCsv_ErrorSwallowed ==
    /\ pc = "load_csv"
    /\ df' = IF file.loadable THEN file.df ELSE EmptyTable
    /\ pc' = "preflight"
    /\ UNCHANGED <<file, ruleIdx, errors, result>>
    /\ UNCHANGED <<ruleVars, strictVars, mainVars>>

\* load_csv: pd.read_csv gives the table, or its exception becomes RuntimeError
LoadCsv ==
    /\ pc = "load_csv"
    /\ \/ /\ file.loadable
          /\ df' = file.df
          /\ pc' = "preflight"
       \/ /\ ~file.loadable
          /\ df' = df
          /\ pc' = "raised"
    /\ UNCHANGED <<file, ruleIdx, errors, result>>
    /\ UNCHANGED <<ruleVars, strictVars, mainVars>>

\* the schema check without the early return
Preflight_NoEarlyReturn ==
    /\ pc = "preflight"
    /\ errors' = errors \o check_missing_columns(df)
    /\ result' = result
    /\ pc' = "rules"
    /\ ruleIdx' = 1
    /\ UNCHANGED <<file, df>>
    /\ UNCHANGED <<ruleVars, strictVars, mainVars>>

\* STEP 1: the schema check, and the early return when it reports anything
Preflight ==
    /\ pc = "preflight"
    /\ errors' = errors \o check_missing_columns(df)
    /\ \/ /\ Len(errors') > 0
          /\ result' = ScanResult(df, errors')
          /\ pc' = "done"
          /\ ruleIdx' = ruleIdx
       \/ /\ Len(errors') = 0
          /\ result' = result
          /\ pc' = "rules"
          /\ ruleIdx' = 1
    /\ UNCHANGED <<file, df>>
    /\ UNCHANGED <<ruleVars, strictVars, mainVars>>

\* STEP 2: one turn of `for rule in RULES`
RunRule ==
    /\ pc = "rules"
    /\ ruleIdx <= Len(RULES)
    /\ errors' = errors \o CallRule(RULES[ruleIdx], df)
    /\ ruleIdx' = ruleIdx + 1
    /\ pc' = IF ruleIdx = Len(RULES) THEN "core_steps" ELSE "rules"
    /\ UNCHANGED <<file, df, result>>
    /\ UNCHANGED <<ruleVars, strictVars, mainVars>>

\* STEP 2.5
CoreSteps ==
    /\ pc = "core_steps"
    /\ errors' = errors \o check_core_steps_enforcement(df)
    /\ pc' = "conditional"
    /\ UNCHANGED <<file, df, ruleIdx, result>>
    /\ UNCHANGED <<ruleVars, strictVars, mainVars>>

\* STEP 3: `for required_columns, rule in CONDITIONAL_RULES` (one entry)
ConditionalRules ==
    /\ pc = "conditional"
    /\ \/ /\ CONDITIONAL_RULES[1].required_columns \subseteq Columns(df)
          /\ errors' = errors \o CallRule(CONDITIONAL_RULES[1].rule, df)
       \/ /\ ~(CONDITIONAL_RULES[1].required_columns \subseteq Columns(df))
          /\ errors' = errors
    /\ pc' = "return"
    /\ UNCHANGED <<file, df, ruleIdx, result>>
    /\ UNCHANGED <<ruleVars, strictVars, mainVars>>

Return ==
    /\ pc = "return"
    /\ result' = ScanResult(df, errors)
    /\ pc' = "done"
    /\ UNCHANGED <<file, df, ruleIdx, errors>>
    /\ UNCHANGED <<ruleVars, strictVars, mainVars>>

Next == LoadCsv \/ Preflight \/ RunRule \/ CoreSteps \/ ConditionalRules \/ Return

Spec == Init /\ [][Next]_vars

(***************************************************************************)
(* Each validator called on its own                                        *)
(***************************************************************************)
InitRules ==
    /\ df \in FreeTables \cup CoreTables \cup StepTables
    /\ file = [loadable |-> TRUE, df |-> df]
    /\ pc = "idle"
    /\ ruleIdx = 0
    /\ errors = <<>>
    /\ result = NoResult
    /\ RulesIdle
    /\ StrictIdle
    /\ MainIdle

\* one call of a validator on the table
Call(rule, issues) ==
    /\ pc = "idle"
    /\ spc = "idle"
    /\ applied = ""
    /\ applied' = rule
    /\ out' = issues
    /\ UNCHANGED <<scanVars, strictVars, mainVars>>

CallMissingColumns == Call("check_missing_columns", check_missing_columns(df))
CallRequiredFields == Call("check_required_fields", check_required_fields(df))
CallBlankRows == Call("check_blank_rows", check_blank_rows(df))
CallDataRequired == Call("check_data_required_for_actions", check_data_required_for_actions(df))
CallPunctuation == Call("check_expected_results_punctuation", check_expected_results_punctuation(df))
CallGeneric == Call("check_generic_expected_results", check_generic_expected_results(df))
CallStepNumbering == Call("check_step_numbering", check_step_numbering(df))
CallCoreSteps == Call("check_core_steps_enforcement", check_core_steps_enforcement(df))

NextRules ==
    \/ CallMissingColumns \/ CallRequiredFields \/ CallBlankRows \/ CallDataRequired
    \/ CallPunctuation \/ CallGeneric \/ CallStepNumbering \/ CallCoreSteps

SpecRules == InitRules /\ [][NextRules]_vars

(***************************************************************************)
(* apply_strict_mode                                                       *)
(***************************************************************************)
InitStrict ==
    /\ ScanIdle
    /\ RulesIdle
    /\ MainIdle
    /\ heap \in SeqsUpTo(IssuePool, MaxObjs)
    /\ inList \in SeqsUpTo(1..Len(heap), MaxIssues)
    /\ input0 = Deref(inList)
    /\ strict_errors = <<>>
    /\ si = 1
    /\ spc = "loop"

\* isinstance(e, str): the str is appended as it is
StrictKeepStr ==
    /\ spc = "loop" /\ si <= Len(inList)
    /\ IsStr(heap[inList[si]])
    /\ strict_errors' = Append(strict_errors, inList[si])
    /\ si' = si + 1
    /\ UNCHANGED <<heap, inList, input0, spc>>
    /\ UNCHANGED <<scanVars, ruleVars, mainVars>>

\* a WARNING promoted in place: e["severity"] = "FAIL", and e appended
StrictPromote_InPlace ==
    /\ spc = "loop" /\ si <= Len(inList)
    /\ ~IsStr(heap[inList[si]])
    /\ extract_severity(heap[inList[si]]) = WARNING
    /\ heap' = [heap EXCEPT ![inList[si]] = Promoted(@)]
    /\ strict_errors' = Append(strict_errors, inList[si])
    /\ si' = si + 1
    /\ UNCHANGED <<inList, input0, spc>>
    /\ UNCHANGED <<scanVars, ruleVars, mainVars>>

\* a WARNING: a copy with severity FAIL is appended
StrictPromote ==
    /\ spc = "loop" /\ si <= Len(inList)
    /\ ~IsStr(heap[inList[si]])
    /\ extract_severity(heap[inList[si]]) = WARNING
    /\ heap' = Append(heap, Promoted(heap[inList[si]]))
    /\ strict_errors' = Append(strict_errors, Len(heap'))
    /\ si' = si + 1
    /\ UNCHANGED <<inList, input0, spc>>
    /\ UNCHANGED <<scanVars, ruleVars, mainVars>>

\* any other dict is appended as it is
StrictKeep ==
    /\ spc = "loop" /\ si <= Len(inList)
    /\ ~IsStr(heap[inList[si]])
    /\ extract_severity(heap[inList[si]]) # WARNING
    /\ strict_errors' = Append(strict_errors, inList[si])
    /\ si' = si + 1
    /\ UNCHANGED <<heap, inList, input0, spc>>
    /\ UNCHANGED <<scanVars, ruleVars, mainVars>>

StrictReturn ==
    /\ spc = "loop" /\ si > Len(inList)
    /\ spc' = "done"
    /\ UNCHANGED <<heap, inList, input0, strict_errors, si>>
    /\ UNCHANGED <<scanVars, ruleVars, mainVars>>

NextStrict == StrictKeepStr \/ StrictPromote \/ StrictKeep \/ StrictReturn

SpecStrict == InitStrict /\ [][NextStrict]_vars


(***************************************************************************)
(* app/main.py: main                                                       *)
(***************************************************************************)
ASK_TO_OPEN_FILE == TRUE

\* run_scan(csv_path)["errors"] for a file that loads as this table
run_scan(table) ==
    LET pre == check_missing_columns(table)
    IN  IF pre # <<>> THEN pre
        ELSE pre
             \o Flatten([i \in 1..Len(RULES) |-> CallRule(RULES[i], table)])
             \o check_core_steps_enforcement(table)
             \o (IF CONDITIONAL_RULES[1].required_columns \subseteq Columns(table)
                 THEN CallRule(CONDITIONAL_RULES[1].rule, table)
                 ELSE <<>>)

\* the list apply_strict_mode returns, as values
apply_strict_mode(es) ==
    [k \in 1..Len(es) |->
        IF IsStr(es[k]) THEN es[k]
        ELSE IF extract_severity(es[k]) = WARNING THEN Promoted(es[k])
        ELSE es[k]]

\* the Status line print_human_report prints for these issues
ReportStatus(fail_count, issues_found) ==
    IF issues_found = 0 THEN "PASS"
    ELSE IF fail_count > 0 THEN "FAIL"
    ELSE "PASS (Warnings)"

print_human_report(es) == ReportStatus(summarize_issues(es)[1], Len(es))

OnDisk(table) == [exists |-> TRUE, loadable |-> TRUE, df |-> table]

\* what may be at csv_path: nothing, a file read_csv rejects, a table without
\* issues, one with a WARNING only, one with FAIL issues, one without Action
MainFiles ==
    {[exists |-> FALSE, loadable |-> FALSE, df |-> EmptyTable],
     [exists |-> TRUE, loadable |-> FALSE, df |-> EmptyTable],
     OnDisk(Table(<<COL_TEST_CASE_ID, COL_STEP, COL_ACTION, COL_DATA, COL_EXPECTED_RESULTS>>,
                  <<FullRow(<<"T","C","1">>, <<"1">>, <<"O","p","e","n"," ","t","h","e"," ","p","a","g","e">>, NaN, <<"P","a","g","e"," ","o","p","e","n","s",".">>)>>)),
     OnDisk(Table(<<COL_TEST_CASE_ID, COL_ACTION, COL_DATA, COL_EXPECTED_RESULTS>>,
                  <<FullRow(<<"T","C","1">>, NaN, <<"O","p","e","n">>, <<"d">>, <<"S","h","o","w","n">>)>>)),
     OnDisk(Table(<<COL_TEST_CASE_ID, COL_STEP, COL_ACTION, COL_DATA, COL_EXPECTED_RESULTS>>,
                  <<FullRow(<<"T","C","1">>, <<"x">>, NaN, <<"J","o","h","n">>, <<"n","o",".">>)>>)),
     OnDisk(Table(<<COL_EXPECTED_RESULTS, COL_DATA>>,
                  <<FullRow(NaN, NaN, NaN, <<"d">>, <<"S","h","o","w","n">>)>>))}

\* what the user types at a prompt
Cmds == {<<>>, <<"q">>, <<" ","Q"," ">>, <<"q","u","i","t">>, <<"y">>}

\* standard input is at its end: input() raises EOFError
EndOfInput == <<"EOF">>

\* main() is entered
InitMain ==
    /\ csv \in MainFiles
    /\ mpc = "start"
    /\ main_errors = <<>>
    /\ strict_errors2 = <<>>
    /\ status = ""
    /\ finalChecks = 0
    /\ cmd = <<>>
    /\ ScanIdle
    /\ RulesIdle
    /\ StrictIdle

\* resolve_csv_path and the os.path.exists test
MainResolve ==
    /\ mpc = "start"
    /\ mpc' = IF csv.exists THEN "normal_scan" ELSE "raised"
    /\ UNCHANGED <<csv, main_errors, strict_errors2, status, finalChecks, cmd>>
    /\ UNCHANGED <<scanVars, ruleVars, strictVars>>

\* 1) NORMAL scan, its report, and the return when there is no issue
MainNormalScan ==
    /\ mpc = "normal_scan"
    /\ \/ /\ ~(csv.exists /\ csv.loadable)
          /\ mpc' = "raised"
          /\ UNCHANGED <<main_errors, status>>
       \/ /\ csv.exists /\ csv.loadable
          /\ main_errors' = run_scan(csv.df)
          /\ status' = print_human_report(main_errors')
          /\ mpc' = IF Len(main_errors') = 0 THEN "returned" ELSE "ask_open"
    /\ UNCHANGED <<csv, strict_errors2, finalChecks, cmd>>
    /\ UNCHANGED <<scanVars, ruleVars, strictVars>>

\* "Open the file now?", before the loop and at the end of an iteration:
\* either answer leads to the FINAL CHECK prompt
MainAskOpen ==
    /\ mpc = "ask_open"
    /\ ASK_TO_OPEN_FILE
    /\ \E typed \in Cmds \cup {EndOfInput} :
          mpc' = IF typed = EndOfInput THEN "raised" ELSE "prompt"
    /\ UNCHANGED <<csv, main_errors, strict_errors2, status, finalChecks, cmd>>
    /\ UNCHANGED <<scanVars, ruleVars, strictVars>>

\* the prompt of the loop: 'q' returns, anything else runs a FINAL CHECK,
\* and the end of standard input raises EOFError
MainPrompt ==
    /\ mpc = "prompt"
    /\ \/ /\ mpc' = "raised"
          /\ UNCHANGED cmd
       \/ \E typed \in Cmds :
             /\ cmd' = lower(strip(typed))
             /\ \/ /\ cmd' = <<"q">>
                   /\ mpc' = "returned"
                \/ /\ cmd' # <<"q">>
                   /\ finalChecks < MaxFinalChecks
                   /\ mpc' = "final_check"
    /\ UNCHANGED <<csv, main_errors, strict_errors2, status, finalChecks>>
    /\ UNCHANGED <<scanVars, ruleVars, strictVars>>

\* a FINAL CHECK whose strict pass works on the issues of the normal scan
MainFinalCheck_NoRescan ==
    /\ mpc = "final_check"
    /\ \/ /\ ~(csv.exists /\ csv.loadable)
          /\ mpc' = "raised"
          /\ UNCHANGED <<strict_errors2, status, finalChecks>>
       \/ /\ csv.exists /\ csv.loadable
          /\ strict_errors2' = apply_strict_mode(main_errors)
          /\ status' = print_human_report(strict_errors2')
          /\ finalChecks' = finalChecks + 1
          /\ mpc' = IF Len(strict_errors2') = 0 THEN "returned" ELSE "ask_open"
    /\ UNCHANGED <<csv, main_errors, cmd>>
    /\ UNCHANGED <<scanVars, ruleVars, strictVars>>

\* one FINAL CHECK: run_scan again, strict mode, report, return when clean
MainFinalCheck ==
    /\ mpc = "final_check"
    /\ \/ /\ ~(csv.exists /\ csv.loadable)
          /\ mpc' = "raised"
          /\ UNCHANGED <<strict_errors2, status, finalChecks>>
       \/ /\ csv.exists /\ csv.loadable
          /\ strict_errors2' = apply_strict_mode(run_scan(csv.df))
          /\ status' = print_human_report(strict_errors2')
          /\ finalChecks' = finalChecks + 1
          /\ mpc' = IF Len(strict_errors2') = 0 THEN "returned" ELSE "ask_open"
    /\ UNCHANGED <<csv, main_errors, cmd>>
    /\ UNCHANGED <<scanVars, ruleVars, strictVars>>

\* while main waits for input the user saves, replaces or removes the file
UserSaves ==
    /\ mpc \in {"ask_open", "prompt"}
    /\ csv' \in MainFiles \ {csv}
    /\ UNCHANGED <<mpc, main_errors, strict_errors2, status, finalChecks, cmd>>
    /\ UNCHANGED <<scanVars, ruleVars, strictVars>>

NextMain ==
    \/ MainResolve \/ MainNormalScan \/ MainAskOpen \/ MainPrompt
    \/ MainFinalCheck \/ UserSaves

SpecMain == InitMain /\ [][NextMain]_vars
(***************************************************************************)
(* Properties                                                              *)
(***************************************************************************)
RequiredColumns == {COL_ACTION, COL_EXPECTED_RESULTS}

SchemaOk(table) == RequiredColumns \subseteq Columns(table)

\* the row number an issue carries, under either of its keys
IssueRow(e) == IF "row" \in DOMAIN e THEN e.row ELSE e.excel_row

HasRule(e, rule) == "rule" \in DOMAIN e /\ e.rule = rule

\* C1: whenever Action or Expected Results is absent from the header, scan
\* returns exactly one issue: file-level (no row), FAIL, rule MISSING_COLUMNS,
\* its message naming the missing columns in alphabetical order, comma-joined;
\* nothing else is reported, whatever the rows hold.
C1_SchemaShortCircuit ==
    (pc = "done" /\ ~SchemaOk(df)) =>
        /\ Len(result.errors) = 1
        /\ DOMAIN result.errors[1] = {"row", "message", "rule", "severity"}
        /\ result.errors[1].row = None
        /\ result.errors[1].severity = FAIL
        /\ result.errors[1].rule = "MISSING_COLUMNS"
        /\ result.errors[1].message =
              IF COL_ACTION \in Columns(df)
              THEN "Missing required columns: Expected Results"
              ELSE IF COL_EXPECTED_RESULTS \in Columns(df)
              THEN "Missing required columns: Action"
              ELSE "Missing required columns: Action, Expected Results"

\* a scan that ended on a header without both required columns, over rows
\* that are not all blank
C1_Witness ==
    /\ pc = "done"
    /\ COL_ACTION \notin Columns(df)
    /\ COL_EXPECTED_RESULTS \notin Columns(df)
    /\ \E k \in 1..Len(df.rows) : ~is_blank_row(df.rows[k])
    /\ Len(result.errors) = 1

\* the value of a key of an entry, with whether the key is there
Item(e, key) == IF key \in DOMAIN e THEN <<TRUE, e[key]>> ELSE <<FALSE>>

\* the list apply_strict_mode has returned
Returned == Deref(strict_errors)

\* C2: the list apply_strict_mode returns is as long as its input, holds no
\* WARNING, and at every position carries the input entry's row, message, rule
\* and field; a WARNING has become a FAIL, a FAIL or INFO has kept its severity.
C2_StrictModePromotes ==
    spc = "done" =>
        /\ Len(Returned) = Len(input0)
        /\ \A k \in 1..Len(input0) :
              /\ extract_severity(Returned[k]) # WARNING
              /\ extract_severity(Returned[k]) =
                    IF extract_severity(input0[k]) = WARNING THEN FAIL
                    ELSE extract_severity(input0[k])
              /\ IsStr(input0[k]) => Returned[k] = input0[k]
              /\ ~IsStr(input0[k]) =>
                    \A key \in {"row", "message", "rule", "field"} :
                        Item(Returned[k], key) = Item(input0[k], key)

\* a call that returned after promoting a WARNING that carries a field and
\* keeping an INFO entry
C2_Witness ==
    /\ spc = "done"
    /\ \E k \in 1..Len(input0) :
          /\ extract_severity(input0[k]) = WARNING
          /\ "field" \in DOMAIN input0[k]
          /\ extract_severity(Returned[k]) = FAIL
    /\ \E k \in 1..Len(input0) : extract_severity(input0[k]) = INFO

\* C3 as stated: strict mode leaves the FAIL count and the INFO count of
\* summarize_issues as they were before the call.
C3_FailAndInfoCountsUnchanged ==
    spc = "done" =>
        /\ summarize_issues(Returned)[1] = summarize_issues(input0)[1]
        /\ summarize_issues(Returned)[3] = summarize_issues(input0)[3]

\* C3 as amended: the INFO count is unchanged, no WARNING is left, and the
\* FAIL count after the call is the FAIL count plus the WARNING count before it.
C3_InfoCountUnchangedFailsAbsorbWarnings ==
    spc = "done" =>
        /\ summarize_issues(Returned)[3] = summarize_issues(input0)[3]
        /\ summarize_issues(Returned)[2] = 0
        /\ summarize_issues(Returned)[1] =
              summarize_issues(input0)[1] + summarize_issues(input0)[2]

\* a call that returned on a list with a FAIL entry and a WARNING entry
C3_Witness ==
    /\ spc = "done"
    /\ summarize_issues(input0)[1] = 1
    /\ summarize_issues(input0)[2] = 1
    /\ summarize_issues(Returned)[1] = 2

\* C4: apply_strict_mode leaves its input alone: at every point of the call
\* the input list refers to entries that are what they were at the call, and
\* every promoted WARNING is a new object whose value differs from the original.
C4_InputNotMutated ==
    /\ Deref(inList) = input0
    /\ \A k \in 1..Len(strict_errors) :
          extract_severity(input0[k]) = WARNING =>
              /\ strict_errors[k] \notin Range(inList)
              /\ heap[strict_errors[k]] # input0[k]

\* a finished call that promoted an entry the input holds twice
C4_Witness ==
    /\ spc = "done"
    /\ \E j, k \in 1..Len(inList) :
          /\ j < k
          /\ inList[j] = inList[k]
          /\ extract_severity(input0[k]) = WARNING
          /\ strict_errors[j] # strict_errors[k]
          /\ heap[inList[k]] = input0[k]

\* the issue carries the number of a row of the table that is blank
OnBlankRow(table, e) ==
    /\ IssueRow(e) - 1 \in 1..Len(table.rows)
    /\ is_blank_row(table.rows[IssueRow(e) - 1])

BlankSkippingRules ==
    {"check_required_fields", "check_data_required_for_actions",
     "check_expected_results_punctuation", "check_generic_expected_results"}

\* C5: the required-fields, data-required, punctuation and generic-text
\* validators never report a blank row; the blank-row validator reports every
\* blank row exactly once, as a WARNING "Blank row" without field, and reports
\* no other row.
C5_BlankRowsOnlyFromBlankRowRule ==
    /\ applied \in BlankSkippingRules =>
          \A k \in 1..Len(out) : ~OnBlankRow(df, out[k])
    /\ applied = "check_blank_rows" =>
          /\ \A i \in 1..Len(df.rows) :
                Cardinality({k \in 1..Len(out) : out[k].row = i + 1}) =
                    IF is_blank_row(df.rows[i]) THEN 1 ELSE 0
          /\ \A k \in 1..Len(out) :
                /\ DOMAIN out[k] = {"row", "message", "rule", "severity"}
                /\ out[k].message = "Blank row"
                /\ out[k].rule = "BLANK_ROW"
                /\ out[k].severity = WARNING
                /\ out[k].row - 1 \in 1..Len(df.rows)

\* check_required_fields has run on a table with both of its columns, a blank
\* row and a row it reports
C5_Witness ==
    /\ applied = "check_required_fields"
    /\ SchemaOk(df)
    /\ \E i \in 1..Len(df.rows) : is_blank_row(df.rows[i])
    /\ Len(out) > 0

\* C6 as stated: in the result of a scan every issue on a blank row is a
\* BLANK_ROW issue.
C6_OnlyBlankRowIssuesOnBlankRows ==
    pc = "done" =>
        \A k \in 1..Len(result.errors) :
            OnBlankRow(df, result.errors[k]) => HasRule(result.errors[k], "BLANK_ROW")

\* the entry has the shape of an issue of check_core_steps_enforcement
IsCoreStepsIssue(e) ==
    /\ DOMAIN e = {"severity", "excel_row", "message"}
    /\ e \in Range(check_core_steps_enforcement(df))

\* C6 as amended: in the result of a scan every issue on a blank row is a
\* BLANK_ROW issue or a mismatch warning of core-steps enforcement, which
\* compares every row, blank or not, with the template; the validators of
\* RULES and step-numbering report no blank row.
C6_BlankRowsReportedByBlankRowRuleAndCoreSteps ==
    pc = "done" =>
        \A k \in 1..Len(result.errors) :
            OnBlankRow(df, result.errors[k]) =>
                \/ HasRule(result.errors[k], "BLANK_ROW")
                \/ IsCoreStepsIssue(result.errors[k])

\* a finished scan of a table with Test Case ID and Step # whose blank row got
\* its BLANK_ROW issue and a core-steps warning
C6_Witness ==
    /\ pc = "done"
    /\ {COL_TEST_CASE_ID, COL_STEP} \subseteq Columns(df)
    /\ \E j, k \in 1..Len(result.errors) :
          /\ OnBlankRow(df, result.errors[j])
          /\ HasRule(result.errors[j], "BLANK_ROW")
          /\ OnBlankRow(df, result.errors[k])
          /\ IsCoreStepsIssue(result.errors[k])
          /\ IssueRow(result.errors[j]) = IssueRow(result.errors[k])
    /\ \E k \in 1..Len(result.errors) : "error" \in DOMAIN result.errors[k]

\* the issue with its row number blanked
Unnumbered(e) == [e EXCEPT !.row = None]

\* the issues the validators of RULES raise for one row
RowIssues(row) ==
    Range(RequiredFieldsRow(row, 0)) \cup Range(BlankRowsRow(row, 0))
    \cup Range(DataRequiredRow(row, 0)) \cup Range(PunctuationRow(row, 0))
    \cup Range(GenericRow(row, 0))

\* e is an issue that one of the validators of RULES raises for the row at
\* zero-based index i
RuleIssueConcerns(table, e, i) ==
    \E x \in RowIssues(table.rows[i + 1]) : Unnumbered(x) = Unnumbered(e)

\* the Step # of the row at zero-based index j, as to_int_step reads it
StepOf(table, j) == to_int_step(Get(table.rows[j + 1], COL_STEP))

\* zero-based indices of the rows step-numbering puts into one group with row i
GroupOf(table, i) ==
    {j \in 0..(Len(table.rows) - 1) :
        /\ ~is_blank_row(table.rows[j + 1])
        /\ ~is_empty_like(table.rows[j + 1][COL_TEST_CASE_ID])
        /\ table.rows[j + 1][COL_TEST_CASE_ID] = table.rows[i + 1][COL_TEST_CASE_ID]}

\* the rows of a group with an integer Step #
ValidOf(table, G) == {j \in G : StepOf(table, j) # <<>>}

\* the integers of [1, max step] that are no step of the rows in V
MissingOf(table, V) ==
    LET steps == {StepOf(table, j)[1] : j \in V}
    IN  IF V = {} THEN {} ELSE (1..Max(steps)) \ steps

\* the rows of V whose step is smaller than the step of the row of V before it
DecreasingOf(table, V) ==
    {j \in V : LET prev == {h \in V : h < j}
               IN  /\ prev # {}
                   /\ StepOf(table, j)[1] < StepOf(table, Max(prev))[1]}

DuplicateText(step, tc) ==
    "Duplicate Step # " \o ToString(step) \o " in Test Case ID " \o tc

MissingText(missing, tc) ==
    "Missing Step # in Test Case ID " \o tc \o ": " \o JoinInts(sortedInts(missing))

OutOfOrderText ==
    "Step # is out of order in Test Case ID {tc_id} (expected ascending order)"

\* e is an error that step-numbering raises for the row at zero-based index i
StepErrorConcerns(table, e, i) ==
    LET raw == Get(table.rows[i + 1], COL_STEP)
        tc == Text(str(table.rows[i + 1][COL_TEST_CASE_ID]))
        G == GroupOf(table, i)
        V == ValidOf(table, G)
    IN  /\ DOMAIN e = {"row", "error"}
        /\ i \in G
        /\ \/ /\ is_empty_like(raw)
              /\ e.error = "Step # is empty (Test Case ID: " \o tc \o ")"
           \/ /\ ~is_empty_like(raw)
              /\ i \notin V
              /\ e.error = "Step # is not a number: \"" \o Text(strip(str(raw)))
                           \o "\" (Test Case ID: " \o tc \o ")"
           \/ /\ i \in V
              /\ \E j \in V \ {i} : StepOf(table, j) = StepOf(table, i)
              /\ e.error = DuplicateText(StepOf(table, i)[1], tc)
           \/ /\ i = Min(G)
              /\ MissingOf(table, V) # {}
              /\ e.error = MissingText(MissingOf(table, V), tc)
           \/ /\ DecreasingOf(table, V) # {}
              /\ i = Min(DecreasingOf(table, V))
              /\ e.error = OutOfOrderText

\* e is a warning that core-steps enforcement raises for the row at zero-based
\* index i, the row of template position i + 1
CoreIssueConcerns(table, e, i) ==
    /\ DOMAIN e = {"severity", "excel_row", "message"}
    /\ i + 1 <= Len(CORE_STEPS)
    /\ e.message \in {x.message : x \in Range(EnforceStep(BuildSteps(table), i))}

\* C7: every issue of a scan that carries a row number carries i + 2 for the
\* row, of zero-based index i, that it is about: the row at index (number - 2)
\* exists and is the row that gives rise to the issue, for the validators of
\* RULES, for step-numbering and for core-steps enforcement (template position
\* p at row p + 1); a blank first row is reported as row 2.
C7_RowNumberIsIndexPlusTwo ==
    pc = "done" =>
        /\ \A k \in 1..Len(result.errors) :
              LET e == result.errors[k]
                  i == IssueRow(e) - 2
              IN  IssueRow(e) # None =>
                    /\ i \in 0..(Len(df.rows) - 1)
                    /\ IF "rule" \in DOMAIN e THEN RuleIssueConcerns(df, e, i)
                       ELSE IF "error" \in DOMAIN e THEN StepErrorConcerns(df, e, i)
                       ELSE CoreIssueConcerns(df, e, i)
        /\ (SchemaOk(df) /\ Len(df.rows) > 0 /\ is_blank_row(df.rows[1])) =>
              \E k \in 1..Len(result.errors) :
                  /\ HasRule(result.errors[k], "BLANK_ROW")
                  /\ result.errors[k].row = 2

\* a finished scan of a table with a blank first row: the blank row and the
\* core-steps mismatch of position 1 at row 2, the step-numbering error of the
\* group's first row at row 3, and an issue of RULES further down
C7_Witness ==
    /\ pc = "done"
    /\ \E k \in 1..Len(result.errors) :
          HasRule(result.errors[k], "BLANK_ROW") /\ result.errors[k].row = 2
    /\ \E k \in 1..Len(result.errors) :
          "excel_row" \in DOMAIN result.errors[k] /\ result.errors[k].excel_row = 2
    /\ \E k \in 1..Len(result.errors) :
          "error" \in DOMAIN result.errors[k] /\ result.errors[k].row = 3
    /\ \E k \in 1..Len(result.errors) :
          HasRule(result.errors[k], "DATA_REQUIRED") /\ result.errors[k].row = 9

\* the table is one Test Case ID group whose Step # values are all integers
SingleValidGroup(table) ==
    /\ {COL_TEST_CASE_ID, COL_STEP} \subseteq Columns(table)
    /\ Len(table.rows) > 0
    /\ GroupOf(table, 0) = 0..(Len(table.rows) - 1)
    /\ ValidOf(table, GroupOf(table, 0)) = GroupOf(table, 0)

\* how many entries of a list are the error with this row and this text
CountOf(es, row, text) ==
    Cardinality({k \in 1..Len(es) : es[k] = [row |-> row, error |-> text]})

\* the rows of V whose step is the step of another row of V
DuplicatedOf(table, V) ==
    {j \in V : \E h \in V \ {j} : StepOf(table, h) = StepOf(table, j)}

Indicator(b) == IF b THEN 1 ELSE 0

\* the Step # values of the rows, in row order
StepList(table) == [k \in 1..Len(table.rows) |-> StepOf(table, k - 1)[1]]

\* C8: for a table that is one Test Case ID group with only integer steps,
\* check_step_numbering returns exactly: one duplicate error on each row whose
\* step occurs on another row too; one missing error, on the first row, listing
\* in ascending order the integers of [1, max step] that are absent, iff there
\* is one; one out-of-order error, on the first row whose step is smaller than
\* the step of the row before, iff there is one. For steps 1, 2, 2, 4: two
\* duplicate errors for step 2, one missing error citing 3, no order error.
C8_StepNumberingErrorsOfOneGroup ==
    (applied = "check_step_numbering" /\ SingleValidGroup(df)) =>
        LET V == GroupOf(df, 0)
            tc == Text(str(df.rows[1][COL_TEST_CASE_ID]))
            dup == DuplicatedOf(df, V)
            missing == MissingOf(df, V)
            bad == DecreasingOf(df, V)
        IN  /\ \A j \in V :
                  CountOf(out, j + 2, DuplicateText(StepOf(df, j)[1], tc)) =
                      Indicator(j \in dup)
            /\ Cardinality({k \in 1..Len(out) : out[k].error = MissingText(missing, tc)})
                  = Indicator(missing # {})
            /\ missing # {} => CountOf(out, 2, MissingText(missing, tc)) = 1
            /\ Cardinality({k \in 1..Len(out) : out[k].error = OutOfOrderText})
                  = Indicator(bad # {})
            /\ bad # {} => CountOf(out, Min(bad) + 2, OutOfOrderText) = 1
            /\ Len(out) = Cardinality(dup) + Indicator(missing # {}) + Indicator(bad # {})
            /\ StepList(df) = <<1, 2, 2, 4>> =>
                  /\ Len(out) = 3
                  /\ CountOf(out, 3, "Duplicate Step # 2 in Test Case ID " \o tc) = 1
                  /\ CountOf(out, 4, "Duplicate Step # 2 in Test Case ID " \o tc) = 1
                  /\ CountOf(out, 2, "Missing Step # in Test Case ID " \o tc \o ": 3") = 1

\* check_step_numbering has run on the group with steps 1, 2, 2, 4
C8_Witness ==
    /\ applied = "check_step_numbering"
    /\ SingleValidGroup(df)
    /\ StepList(df) = <<1, 2, 2, 4>>
    /\ Len(out) = 3

\* the text core-steps enforcement reads from a cell: "" for a missing value
CellText(value) == IF value = NaN THEN <<>> ELSE str(value)

\* the configured anchors whose action is the Action of the row at their
\* position, after whitespace normalization
MatchingAnchors(table) ==
    {p \in {3, 4, 5, 8} :
        steps_match(CellText(table.rows[p][COL_ACTION]), anchor_step_map[p])}

\* how many of Action and Expected Results of the row at template position p
\* differ from the template entry, after whitespace normalization
Mismatches(table, p) ==
    Indicator(~steps_match(CellText(table.rows[p][COL_ACTION]), CORE_STEPS[p].action))
    + Indicator(~steps_match(CellText(table.rows[p][COL_EXPECTED_RESULTS]),
                             CORE_STEPS[p].expected))

\* C9: on a table with Action and Expected Results and at least 8 rows,
\* check_core_steps_enforcement returns nothing when fewer than 2 of the anchors
\* of positions 3, 4, 5, 8 match; when 2 or more match, each of the first
\* min(enforced count, template length, row count) rows gets one WARNING for
\* each of Action and Expected Results that differs from the template entry of
\* its position, and there is no other issue.
C9_AnchorThresholdAndEnforcement ==
    (applied = "check_core_steps_enforcement" /\ SchemaOk(df) /\ Len(df.rows) >= 8) =>
        LET enforced == Min({CORE_STEPS_COUNT, Len(CORE_STEPS), Len(df.rows)})
        IN  /\ Cardinality(MatchingAnchors(df)) < 2 => out = <<>>
            /\ Cardinality(MatchingAnchors(df)) >= 2 =>
                  /\ \A p \in 1..enforced :
                        Cardinality({k \in 1..Len(out) : out[k].excel_row = p + 1})
                            = Mismatches(df, p)
                  /\ \A k \in 1..Len(out) :
                        /\ out[k].severity = WARNING
                        /\ out[k].excel_row - 1 \in 1..enforced

\* enforcement has run on a table where exactly the anchors of positions 4
\* and 5 match, and has reported a row
C9_Witness ==
    /\ applied = "check_core_steps_enforcement"
    /\ SchemaOk(df)
    /\ Len(df.rows) >= 8
    /\ MatchingAnchors(df) = {4, 5}
    /\ Len(out) > 0

\* the issues of the validators of scan on the table, in the order of
\* RULES after the schema check, core-steps enforcement, CONDITIONAL_RULES
ExpectedIssues(table) ==
    check_required_fields(table)
    \o check_blank_rows(table)
    \o check_data_required_for_actions(table)
    \o check_expected_results_punctuation(table)
    \o check_generic_expected_results(table)
    \o check_core_steps_enforcement(table)
    \o (IF {COL_TEST_CASE_ID, COL_STEP} \subseteq Columns(table)
        THEN check_step_numbering(table) ELSE <<>>)

\* C10: when the schema check passes, the issues scan returns are the outputs
\* of required-fields, blank-rows, data-required, punctuation, generic-text,
\* core-steps enforcement and step-numbering (only with Test Case ID and
\* Step # in the header), concatenated in this order, each once, unsorted.
C10_IssuesInValidatorOrder ==
    (pc = "done" /\ SchemaOk(df)) => result.errors = ExpectedIssues(df)

\* a finished scan in which every one of the seven validators reported
C10_Witness ==
    /\ pc = "done"
    /\ SchemaOk(df)
    /\ check_required_fields(df) # <<>>
    /\ check_blank_rows(df) # <<>>
    /\ check_data_required_for_actions(df) # <<>>
    /\ check_expected_results_punctuation(df) # <<>>
    /\ check_generic_expected_results(df) # <<>>
    /\ check_core_steps_enforcement(df) # <<>>
    /\ check_step_numbering(df) # <<>>
    /\ Len(result.errors) > 7

\* C11: every issue in the result of a scan carries a non-empty message and a
\* rule identifier, whichever validator produced it.
C11_EveryIssueHasMessageAndRule ==
    pc = "done" =>
        \A k \in 1..Len(result.errors) :
            /\ "message" \in DOMAIN result.errors[k]
            /\ result.errors[k].message # ""
            /\ "rule" \in DOMAIN result.errors[k]
            /\ result.errors[k].rule # ""

\* a table without rows that has both columns of step-numbering: there
\* check_step_numbering filters an empty frame with the result of an apply
\* over no rows, whose outcome is pandas' and is left out of C12
EmptyFrameForStepNumbering(table) ==
    Len(table.rows) = 0 /\ {COL_TEST_CASE_ID, COL_STEP} \subseteq Columns(table)

\* how far a scan has come: every statement of scan moves it on
Progress(at, idx) ==
    CASE at = "load_csv" -> 0
      [] at = "preflight" -> 1
      [] at = "rules" -> 1 + idx
      [] at = "core_steps" -> 2 + Len(RULES)
      [] at = "conditional" -> 3 + Len(RULES)
      [] at = "return" -> 4 + Len(RULES)
      [] at \in {"done", "raised"} -> 5 + Len(RULES)

\* what C12 says of one state of a scan
ScanOutcome ==
    /\ ~file.loadable => pc \in {"load_csv", "raised"}
    /\ file.loadable => pc # "raised"
    /\ pc = "raised" =>
          /\ result = NoResult
          /\ errors = <<>>
          /\ ruleIdx = 0
    /\ pc = "rules" => ruleIdx \in 1..Len(RULES)
    /\ pc \notin {"done", "raised"} => result = NoResult
    /\ (pc = "done" /\ ~EmptyFrameForStepNumbering(df)) =>
          /\ DOMAIN result = {"rows", "columns", "errors"}
          /\ result.rows = Len(df.rows)
          /\ result.columns = df.columns
          /\ result.errors = errors
          /\ df = file.df

GenericIssue(row_num, kind, shown) ==
    [row |-> row_num,
     message |-> "Expected Results is too " \o kind \o " (\"" \o Text(shown) \o "\")",
     rule |-> "GENERIC_EXPECTED_RESULTS",
     severity |-> WARNING,
     field |-> "Expected Results"]

\* C13: for every non-blank row with a non-empty-like Expected Results,
\* check_generic_expected_results reports at most one issue: "too generic" when
\* the trimmed, lower-cased text is a generic phrase, otherwise "too short"
\* when that text has at most 3 characters, otherwise nothing; never both, and
\* a generic phrase of at most 3 characters ("OK ") is reported as generic.
C13_GenericBeforeShort ==
    (applied = "check_generic_expected_results" /\ COL_EXPECTED_RESULTS \in Columns(df)) =>
        \A i \in 1..Len(df.rows) :
            LET value == df.rows[i][COL_EXPECTED_RESULTS]
                trimmed == strip(str(value))
                hits == {k \in 1..Len(out) : out[k].row = i + 1}
            IN  (~is_blank_row(df.rows[i]) /\ ~is_empty_like(value)) =>
                    IF lower(trimmed) \in GENERIC_PHRASES
                    THEN /\ Cardinality(hits) = 1
                         /\ \A k \in hits : out[k] = GenericIssue(i + 1, "generic", trimmed)
                    ELSE IF Len(lower(trimmed)) <= 3
                    THEN /\ Cardinality(hits) = 1
                         /\ \A k \in hits : out[k] = GenericIssue(i + 1, "short", trimmed)
                    ELSE hits = {}

\* check_generic_expected_results has run on a table with an "OK " row, a row
\* with a short text that is no generic phrase, and a row it lets pass
C13_Witness ==
    /\ applied = "check_generic_expected_results"
    /\ COL_EXPECTED_RESULTS \in Columns(df)
    /\ \E i \in 1..Len(df.rows) :
          /\ df.rows[i][COL_EXPECTED_RESULTS] = <<"O", "K", " ">>
          /\ GenericIssue(i + 1, "generic", <<"O", "K">>) \in Range(out)
    /\ \E i \in 1..Len(df.rows) :
          /\ df.rows[i][COL_EXPECTED_RESULTS] = <<"n", "o", ".">>
          /\ GenericIssue(i + 1, "short", <<"n", "o", ".">>) \in Range(out)
    /\ Len(out) = 2

\* zero-based index of the first row of the Test Case ID group an error of
\* step-numbering belongs to
FirstAppearance(table, e) == Min(GroupOf(table, e.row - 2))

\* C14: check_step_numbering goes through the Test Case ID groups in the
\* order in which each ID first appears in the table: in the returned list all
\* errors of an ID that appears earlier come before all errors of an ID that
\* first appears later.
C14_GroupsInFirstAppearanceOrder ==
    (applied = "check_step_numbering" /\ {COL_TEST_CASE_ID, COL_STEP} \subseteq Columns(df)) =>
        \A j, k \in 1..Len(out) :
            j < k => FirstAppearance(df, out[j]) <= FirstAppearance(df, out[k])

\* C15: each configured anchor agrees with the template: for p in 3, 4, 5, 8
\* the anchor's action is the template's action at position p after whitespace
\* normalization, so that a table whose row p matches the anchor gets no
\* core-step Action mismatch for row p.
C15_AnchorsAgreeWithTemplate ==
    (applied = "check_core_steps_enforcement" /\ SchemaOk(df) /\ Len(df.rows) >= 8) =>
        \A p \in MatchingAnchors(df) :
            /\ steps_match(anchor_step_map[p], CORE_STEPS[p].action)
            /\ \A k \in 1..Len(out) :
                  out[k].excel_row = p + 1 =>
                      out[k].message #
                          "Core Step " \o ToString(p) \o " Action mismatch. Expected: \""
                          \o Text(CORE_STEPS[p].action) \o "\" | Found: \""
                          \o Text(CellText(df.rows[p][COL_ACTION])) \o "\"."


(***************************************************************************)
(* C16                                                                     *)
(***************************************************************************)
\* the issues a scan of this table reports, put together from the validators
ScanIssues(table) ==
    IF SchemaOk(table) THEN ExpectedIssues(table) ELSE check_missing_columns(table)

Quit == cmd = <<"q">>

LatestStrictPassClean == finalChecks > 0 /\ strict_errors2 = <<>> /\ status = "PASS"

\* the FINAL CHECK loop is entered only after a normal scan with issues
NoStrictPassAfterCleanScan ==
    main_errors = <<>> =>
        /\ finalChecks = 0
        /\ strict_errors2 = <<>>
        /\ mpc \notin {"ask_open", "prompt", "final_check"}

\* a strict pass works on a fresh scan of the file as it then is
FinalCheckRescans ==
    (mpc = "final_check" /\ mpc' # "raised") =>
        /\ csv.exists /\ csv.loadable
        /\ strict_errors2' = apply_strict_mode(ScanIssues(csv.df))
        /\ \A k \in 1..Len(strict_errors2') :
              IsStr(strict_errors2'[k]) \/ extract_severity(strict_errors2'[k]) # WARNING
        /\ finalChecks' = finalChecks + 1
        /\ mpc' = IF strict_errors2' = <<>> THEN "returned" ELSE "ask_open"

\* main returns from the loop only on 'q' or after a strict pass without issues
ReturnOnlyByQuitOrCleanPass ==
    (mpc = "returned" /\ main_errors # <<>>) => (Quit \/ LatestStrictPassClean)

\* main never ends on a PASS line while the latest pass still has issues
NoSuccessWithIssues ==
    (mpc \in {"returned", "raised"} /\ status = "PASS") =>
        IF finalChecks = 0 THEN main_errors = <<>> ELSE strict_errors2 = <<>>

====
